---- MODULE Spec2Model ----
(***************************************************************************)
(* A model of the sequoia-oss-api build pipeline: the rate-limited,        *)
(* retrying, cache-aware page fetcher (src/crawl/fetcher.py) and the       *)
(* parse / merge / validate / build pipeline driven by run_build.py.       *)
(*                                                                         *)
(* Seven specifications share the module:                                  *)
(*   SpecFetch     runs of fetch_pages against one cache directory, each   *)
(*                 fetch_company_page call unrolled attempt by attempt;    *)
(*   SpecPipeline  runs of main() from the fetched pages to the exit code  *)
(*                 and the output tree;                                    *)
(*   SpecCalls     calls of the pure functions (slugify, normalize_stage,  *)
(*                 parse_company) on inputs drawn from bounded sets;       *)
(*   SpecPostbuild runs of validate/postbuild.py on a build directory;     *)
(*   SpecStartup   runs of main() from the sitemap to the fetched pages,   *)
(*                 fetch_directory_data unrolled page by page;             *)
(*   SpecReruns    complete runs of fetch_pages on one cache directory;    *)
(*   SpecRelease   build_all into an empty root, then validate_build.      *)
(* Times are in milliseconds.  A Python dict is a TLA+ function whose      *)
(* DOMAIN is the set of its keys; None is the string "None".               *)
(***************************************************************************)
EXTENDS Integers, Sequences, FiniteSets, TLC

VARIABLES
    \* ---- fetcher (SpecFetch) ----
    pc,          \* position of the run: idle, loop, fetching, returned, done, killed, raised
    runNo,       \* number of runs started so far
    cacheOn,     \* fetch_pages(cache=...) is not None
    slugs,       \* fetch_pages(slugs): the list being crawled
    i,           \* number of list entries already processed by the for loop
    results,     \* fetch_pages: results dict, slug -> html
    hashes,      \* ContentCache._hashes, the in-memory hash index
    diskIndex,   \* .cache/content_hashes.json: [file, data], data a dict slug -> digest
    blobs,       \* .cache/html/<slug>.html files: slug -> html
    attempt,     \* fetch_company_page: the loop variable
    trace,       \* events of the running fetch_company_page call
    ret,         \* value returned by the fetch_company_page call
    requested,   \* slugs for which this run issued at least one HTTP request
    outcome,     \* per processed list entry: "cache", "fetched" or "failed"
    tampered,    \* a blob was removed from the cache directory by hand
    \* ---- run_build.main (SpecPipeline) ----
    mpc,         \* position in main: start, fetched, parsed, merged, validated, exited
    pages,       \* main: pages, in insertion order: <<[slug, html], ...>>
    directory_data, \* main: directory_data, slug -> directory entry
    companies,   \* main: companies
    errors,      \* main: errors, the list validate_companies returned
    exitCode,    \* exit code of the process, NoneInt while it runs
    tree,        \* the output directory
    tree0,       \* the output directory as the process found it
    built,       \* build_all was called
    \* ---- calls of the pure functions (SpecCalls) ----
    fn,          \* the function called last, "none" before the first call
    fnArg,       \* its argument
    fnRet,       \* the value it returned
    \* ---- validate/postbuild.py (SpecPostbuild) ----
    vpc,         \* position of postbuild.main: idle, start, exited
    build_dir,   \* the directory named on the command line
    defects,     \* the list validate_build returned
    vexit,       \* exit code of postbuild.main, NoneInt while it runs
    \* ---- fetch_directory_data (SpecStartup) ----
    dir_page     \* fetch_directory_data: page, 0 before the call

fetchVars == <<pc, runNo, cacheOn, slugs, i, results, hashes, diskIndex, blobs,
               attempt, trace, ret, requested, outcome, tampered>>

pipeVars == <<mpc, pages, directory_data, companies, errors, exitCode, tree, tree0, built>>

callVars == <<fn, fnArg, fnRet>>

postVars == <<vpc, build_dir, defects, vexit>>

vars == <<fetchVars, pipeVars, callVars, postVars, dir_page>>

\* what the actions of one specification leave alone
exceptFetch == <<pipeVars, callVars, postVars, dir_page>>
exceptPipeline == <<fetchVars, callVars, postVars, dir_page>>
exceptCalls == <<fetchVars, pipeVars, postVars, dir_page>>
exceptPostbuild == <<fetchVars, pipeVars, callVars, dir_page>>

----------------------------------------------------------------------------
(* Bounds of the model *)

MaxSlugs == 2
MaxRuns == 2
MaxCompanies == 2
MaxLen == 3
MaxItems == 2
MaxTail == 2

\* the largest total a directory page declares
MaxPages == 3

\* the most hyperlinks on a page
MaxLinks == 3

----------------------------------------------------------------------------
(* Values *)

None == "None"

\* None where the other values are texts (sequences of characters): "None"
\* is no character, so this is no text.
NoneText == <<"None">>

\* None where the other values are integers read from \d{4}: never negative.
NoneInt == 0 - 1

Slugs == {"airbnb", "stripe"}

\* Page bodies a server may send; the empty body is a legal 200 response.
Htmls == {"", "<html>v1</html>"}

EmptyDict == [s \in {} |-> None]

\* d[k] = v, as a Python dict assignment
DictSet(d, k, v) == (k :> v) @@ d

\* d.get(k)
DictGet(d, k) == IF k \in DOMAIN d THEN d[k] ELSE None

RECURSIVE Pow2(_)
Pow2(n) == IF n = 0 THEN 1 ELSE 2 * Pow2(n - 1)

Max(a, b) == IF a >= b THEN a ELSE b

\* all sequences over S of length at most n
SeqsUpTo(S, n) == UNION {[1..k -> S] : k \in 0..n}

----------------------------------------------------------------------------
(* Text.  A Python str is a sequence of characters, each a one-character   *)
(* string; three characters outside ASCII carry names: "nbsp" (U+00A0),    *)
(* "e_acute" (U+00E9) and "cjk" (any character without ASCII form).        *)

UpperLetters == <<"A", "B", "C", "D", "E", "F", "G", "H", "I", "J", "K", "L", "M",
                  "N", "O", "P", "Q", "R", "S", "T", "U", "V", "W", "X", "Y", "Z">>
LowerLetters == <<"a", "b", "c", "d", "e", "f", "g", "h", "i", "j", "k", "l", "m",
                  "n", "o", "p", "q", "r", "s", "t", "u", "v", "w", "x", "y", "z">>
Digits == {"0", "1", "2", "3", "4", "5", "6", "7", "8", "9"}

Range(f) == {f[x] : x \in DOMAIN f}

\* str.lower, character by character
LowerChar(c) ==
    IF c \in Range(UpperLetters)
    THEN LowerLetters[CHOOSE n \in DOMAIN UpperLetters : UpperLetters[n] = c]
    ELSE c

\* the characters of str.isspace / the regex class \s
SpaceChars == {" ", "\t", "\n", "\r", "nbsp"}

Lower(t) == [n \in DOMAIN t |-> LowerChar(t[n])]

\* str.strip(chars), one end at a time
RECURSIVE LStrip(_, _)
LStrip(chars, t) ==
    IF t # <<>> /\ Head(t) \in chars THEN LStrip(chars, Tail(t)) ELSE t

RECURSIVE RStrip(_, _)
RStrip(chars, t) ==
    IF t # <<>> /\ t[Len(t)] \in chars THEN RStrip(chars, SubSeq(t, 1, Len(t) - 1)) ELSE t

\* str.strip()
Strip(t) == RStrip(SpaceChars, LStrip(SpaceChars, t))

HyphenChars == {"-"}

\* str.lstrip("-") in its place
StripHyphensLeftOnly(t) == LStrip(HyphenChars, t)

\* str.strip("-")
StripHyphens(t) == RStrip(HyphenChars, LStrip(HyphenChars, t))

\* unicodedata.normalize("NFKD", c).encode("ascii", "ignore").decode("ascii")
AsciiOf(c) ==
    CASE c = "nbsp" -> <<" ">>
      [] c = "e_acute" -> <<"e">>
      [] c = "cjk" -> <<>>
      [] OTHER -> <<c>>

RECURSIVE NfkdAscii(_)
NfkdAscii(t) == IF t = <<>> THEN <<>> ELSE AsciiOf(Head(t)) \o NfkdAscii(Tail(t))

\* the characters re.sub(r"[^a-z0-9\s-]", "", text) keeps
SlugChars == Range(LowerLetters) \cup Digits \cup HyphenChars \cup SpaceChars

\* re.sub(r"[^<class>]", "", text)
RECURSIVE KeepChars(_, _)
KeepChars(chars, t) ==
    IF t = <<>> THEN <<>>
    ELSE (IF Head(t) \in chars THEN <<Head(t)>> ELSE <<>>) \o KeepChars(chars, Tail(t))

\* re.sub(r"<class>+", "-", text): every maximal run of the class becomes one hyphen
RECURSIVE RunsToHyphen(_, _)
RunsToHyphen(chars, t) ==
    IF t = <<>> THEN <<>>
    ELSE IF Head(t) \in chars THEN <<"-">> \o RunsToHyphen(chars, LStrip(chars, t))
    ELSE <<Head(t)>> \o RunsToHyphen(chars, Tail(t))

\* slugify.py: slugify
slugify(text) ==
    LET t1 == Strip(text)
        t2 == NfkdAscii(t1)
        t3 == Lower(t2)
        t4 == KeepChars(SlugChars, t3)
        t5 == RunsToHyphen(SpaceChars, t4)
        t6 == RunsToHyphen(HyphenChars, t5)
    IN  StripHyphens(t6)

\* partners.py / categories.py
normalize_partner_id(raw_name) == slugify(raw_name)
normalize_category_id(raw_label) == slugify(raw_label)

----------------------------------------------------------------------------
(* stages.py *)

STAGE_ENUM == {"pre-seed-seed", "early", "growth", "ipo", "acquired", "unknown"}

RAW_TO_STAGE ==
    {
       [key |-> <<"p", "r", "e", "-", "s", "e", "e", "d", "/", "s", "e", "e", "d">>,
        stage |-> "pre-seed-seed"],
       [key |-> <<"p", "r", "e", "-", "s", "e", "e", "d">>,
        stage |-> "pre-seed-seed"],
       [key |-> <<"s", "e", "e", "d">>,
        stage |-> "pre-seed-seed"],
       [key |-> <<"e", "a", "r", "l", "y">>,
        stage |-> "early"],
       [key |-> <<"e", "a", "r", "l", "y", " ", "s", "t", "a", "g", "e">>,
        stage |-> "early"],
       [key |-> <<"g", "r", "o", "w", "t", "h">>,
        stage |-> "growth"],
       [key |-> <<"g", "r", "o", "w", "t", "h", " ", "s", "t", "a", "g", "e">>,
        stage |-> "growth"],
       [key |-> <<"i", "p", "o">>,
        stage |-> "ipo"],
       [key |-> <<"p", "u", "b", "l", "i", "c">>,
        stage |-> "ipo"],
       [key |-> <<"a", "c", "q", "u", "i", "r", "e", "d">>,
        stage |-> "acquired"],
       [key |-> <<"a", "c", "q", "u", "i", "s", "i", "t", "i", "o", "n">>,
        stage |-> "acquired"]
    }

\* normalize_stage; raw is NoneText or a text, the result None or a stage id
\* _RAW_TO_STAGE.get(cleaned) without the default
NormalizeStageNoDefault(raw) ==
    IF raw = NoneText THEN None
    ELSE LET cleaned == Lower(Strip(raw))
         IN  IF cleaned = <<>> THEN None
             ELSE IF \E e \in RAW_TO_STAGE : e.key = cleaned
             THEN (CHOOSE e \in RAW_TO_STAGE : e.key = cleaned).stage
             ELSE None

normalize_stage(raw) ==
    IF raw = NoneText THEN None
    ELSE LET cleaned == Lower(Strip(raw))
         IN  IF cleaned = <<>> THEN None
             ELSE IF \E e \in RAW_TO_STAGE : e.key = cleaned
             THEN (CHOOSE e \in RAW_TO_STAGE : e.key = cleaned).stage
             ELSE "unknown"

----------------------------------------------------------------------------
(* fetcher.py: configuration *)

DEFAULT_DELAY == 1000
DEFAULT_JITTER == 300
MAX_RETRIES == 3
RETRY_BASE_DELAY == 2000
RETRYABLE_STATUS_CODES == {429, 500, 502, 503, 504}

\* random.uniform(-jitter, jitter), sampled at both ends
JitterDraws == {0 - DEFAULT_JITTER, DEFAULT_JITTER}

\* Status codes of the error responses the server sends in the model.
ServerStatuses == {404, 503}

\* What one client.get + raise_for_status can do.
HttpOutcomes ==
    [kind : {"ok"}, code : {200}, html : Htmls]
    \cup [kind : {"status"}, code : ServerStatuses, html : {None}]
    \cup [kind : {"error"}, code : {0}, html : {None}]

\* hashlib.sha256(html.encode()).hexdigest(): injective on the modelled
\* bodies, never empty, never equal to its input.
Sha256(html) ==
    CASE html = "" -> "e3b0c44298fc1c14"
      [] html = "<html>v1</html>" -> "5f2b9d1c07aa63e0"
      [] OTHER -> "0000000000000000"

Event(e, a) == [ev |-> e, arg |-> a]

GetEvent(o) ==
    CASE o.kind = "ok" -> Event("get_ok", o.code)
      [] o.kind = "status" -> Event("get_status", o.code)
      [] OTHER -> Event("get_error", o.code)

\* _delay_with_jitter(delay): time.sleep(max(0.1, delay * (1 + u)))
DelayWithJitter(delay, u) ==
    Event("delay_with_jitter", Max(100, (delay * (1000 + u)) \div 1000))

\* backoff = RETRY_BASE_DELAY * (2 ** attempt); time.sleep(backoff)
Backoff(k) == Event("sleep", RETRY_BASE_DELAY * Pow2(k))

\* The except clauses of fetch_company_page: HTTPStatusError and RequestError
\* are handled inside the loop; a 2xx response raises nothing.
CaughtStatusOnly(o) == o.kind \in {"ok", "status"}
Caught(o) == o.kind \in {"ok", "status", "error"}

\* The two retry conditions: a retryable status, or any transport error,
\* with attempts left.
ShouldRetryOffByOne(o, k) ==
    \/ o.kind = "status" /\ o.code \in RETRYABLE_STATUS_CODES /\ k <= MAX_RETRIES
    \/ o.kind = "error" /\ k <= MAX_RETRIES
ShouldRetry(o, k) ==
    \/ o.kind = "status" /\ o.code \in RETRYABLE_STATUS_CODES /\ k < MAX_RETRIES
    \/ o.kind = "error" /\ k < MAX_RETRIES

\* What precedes "return resp.text" and "return None".
ReturnEventsNoSleepOnGiveUp(o, u) ==
    IF o.kind = "ok" THEN <<DelayWithJitter(DEFAULT_DELAY, u)>> ELSE <<>>
ReturnEvents(o, u) == <<DelayWithJitter(DEFAULT_DELAY, u)>>

----------------------------------------------------------------------------
(* fetcher.py: ContentCache *)

\* The index file: absent, or a JSON object.
NoFile == [file |-> "missing", data |-> EmptyDict]
JsonFile(d) == [file |-> "json", data |-> d]

\* ContentCache._load: the index file is read when it exists.
Load(index) == IF index.file = "missing" THEN EmptyDict ELSE index.data

\* ContentCache.save: the whole in-memory index replaces the file.
Save(h) == JsonFile(h)

\* ContentCache.get_cached_html
GetCachedHtml(b, s) == DictGet(b, s)

\* ContentCache.update: in-memory digest, then the blob file.
UpdateDigestOnly(h, b, s, html) ==
    [hashes |-> DictSet(h, s, Sha256(html)), blobs |-> b]
UpdateKeepsOldBlob(h, b, s, html) ==
    [hashes |-> DictSet(h, s, Sha256(html)),
     blobs |-> IF s \in DOMAIN b THEN b ELSE DictSet(b, s, html)]
Update(h, b, s, html) ==
    [hashes |-> DictSet(h, s, Sha256(html)), blobs |-> DictSet(b, s, html)]

\* fetch_pages, the cache check at the top of the loop body.
IsCacheHitBlobOnly(on, h, b, s) == on /\ GetCachedHtml(b, s) # None
IsCacheHit(on, h, b, s) ==
    /\ on
    /\ GetCachedHtml(b, s) # None
    /\ DictGet(h, s) # None

----------------------------------------------------------------------------
(* SpecFetch: runs of fetch_pages *)

FetcherIdle ==
    /\ pc = "idle"
    /\ runNo = 0
    /\ cacheOn = FALSE
    /\ slugs = <<>>
    /\ i = 0
    /\ results = EmptyDict
    /\ hashes = EmptyDict
    /\ diskIndex = NoFile
    /\ blobs = EmptyDict
    /\ attempt = 0
    /\ trace = <<>>
    /\ ret = None
    /\ requested = {}
    /\ outcome = <<>>
    /\ tampered = FALSE

\* run_build.main, step 3: cache = None if args.no_cache else ContentCache(),
\* then fetch_pages(slugs, client, cache) up to the for loop.
StartRun ==
    /\ pc \in {"idle", "done", "killed"}
    /\ runNo < MaxRuns
    /\ \E on \in BOOLEAN, l \in SeqsUpTo(Slugs, MaxSlugs) :
        /\ cacheOn' = on
        /\ slugs' = l
        /\ hashes' = IF on THEN Load(diskIndex) ELSE EmptyDict
    /\ runNo' = runNo + 1
    /\ pc' = "loop"
    /\ i' = 0
    /\ results' = EmptyDict
    /\ attempt' = 0
    /\ trace' = <<>>
    /\ ret' = None
    /\ requested' = {}
    /\ outcome' = <<>>
    /\ UNCHANGED <<diskIndex, blobs, tampered>>
    /\ UNCHANGED exceptFetch

\* fetch_pages: the cached blob is reused, no request is made.
CacheHit ==
    /\ pc = "loop"
    /\ i < Len(slugs)
    /\ IsCacheHit(cacheOn, hashes, blobs, slugs[i + 1])
    /\ results' = DictSet(results, slugs[i + 1], GetCachedHtml(blobs, slugs[i + 1]))
    /\ outcome' = Append(outcome, "cache")
    /\ i' = i + 1
    /\ UNCHANGED <<pc, runNo, cacheOn, slugs, hashes, diskIndex, blobs,
                   attempt, trace, ret, requested, tampered>>
    /\ UNCHANGED exceptFetch

\* fetch_pages: no usable cache entry, fetch_company_page is called.
BeginFetch ==
    /\ pc = "loop"
    /\ i < Len(slugs)
    /\ ~IsCacheHit(cacheOn, hashes, blobs, slugs[i + 1])
    /\ pc' = "fetching"
    /\ attempt' = 0
    /\ trace' = <<>>
    /\ ret' = None
    /\ UNCHANGED <<runNo, cacheOn, slugs, i, results, hashes, diskIndex, blobs,
                   requested, outcome, tampered>>
    /\ UNCHANGED exceptFetch

\* fetch_company_page: one iteration of "for attempt in range(MAX_RETRIES + 1)".
Attempt ==
    /\ pc = "fetching"
    /\ attempt <= MAX_RETRIES
    /\ \E o \in HttpOutcomes, u \in JitterDraws :
        /\ requested' = requested \cup {slugs[i + 1]}
        /\ IF ~Caught(o)
           THEN /\ pc' = "raised"
                /\ trace' = Append(trace, GetEvent(o))
                /\ UNCHANGED <<attempt, ret>>
           ELSE IF o.kind = "ok"
           THEN /\ pc' = "returned"
                /\ trace' = Append(trace, GetEvent(o)) \o ReturnEvents(o, u)
                /\ ret' = o.html
                /\ UNCHANGED attempt
           ELSE IF ShouldRetry(o, attempt)
           THEN /\ trace' = Append(trace, GetEvent(o)) \o <<Backoff(attempt)>>
                /\ attempt' = attempt + 1
                /\ UNCHANGED <<pc, ret>>
           ELSE /\ pc' = "returned"
                /\ trace' = Append(trace, GetEvent(o)) \o ReturnEvents(o, u)
                /\ ret' = None
                /\ UNCHANGED attempt
    /\ UNCHANGED <<runNo, cacheOn, slugs, i, results, hashes, diskIndex, blobs,
                   outcome, tampered>>
    /\ UNCHANGED exceptFetch

\* fetch_pages after fetch_company_page returned: "if html is not None: ...".
Continue ==
    /\ pc = "returned"
    /\ LET s == slugs[i + 1]
           u == Update(hashes, blobs, s, ret)
       IN IF ret # None
          THEN /\ results' = DictSet(results, s, ret)
               /\ outcome' = Append(outcome, "fetched")
               /\ hashes' = IF cacheOn THEN u.hashes ELSE hashes
               /\ blobs' = IF cacheOn THEN u.blobs ELSE blobs
          ELSE /\ outcome' = Append(outcome, "failed")
               /\ UNCHANGED <<results, hashes, blobs>>
    /\ i' = i + 1
    /\ pc' = "loop"
    /\ trace' = <<>>
    /\ ret' = None
    /\ UNCHANGED <<runNo, cacheOn, slugs, diskIndex, attempt, requested, tampered>>
    /\ UNCHANGED exceptFetch

\* fetch_pages after the loop: "if cache is not None: cache.save()", return.
FinishRun ==
    /\ pc = "loop"
    /\ i = Len(slugs)
    /\ diskIndex' = IF cacheOn THEN Save(hashes) ELSE diskIndex
    /\ pc' = "done"
    /\ UNCHANGED <<runNo, cacheOn, slugs, i, results, hashes, blobs,
                   attempt, trace, ret, requested, outcome, tampered>>
    /\ UNCHANGED exceptFetch

\* The process is terminated between two operations: memory is lost, the
\* cache directory stays as it is.
Interrupt ==
    /\ pc \in {"loop", "fetching", "returned"}
    /\ pc' = "killed"
    /\ cacheOn' = FALSE
    /\ slugs' = <<>>
    /\ i' = 0
    /\ results' = EmptyDict
    /\ hashes' = EmptyDict
    /\ attempt' = 0
    /\ trace' = <<>>
    /\ ret' = None
    /\ requested' = {}
    /\ outcome' = <<>>
    /\ UNCHANGED <<runNo, diskIndex, blobs, tampered>>
    /\ UNCHANGED exceptFetch

\* Between runs somebody removes one blob file from the cache directory
\* (once in a history).
RemoveBlob ==
    /\ pc \in {"done", "killed"}
    /\ runNo < MaxRuns
    /\ ~tampered
    /\ \E s \in DOMAIN blobs :
        blobs' = [t \in DOMAIN blobs \ {s} |-> blobs[t]]
    /\ tampered' = TRUE
    /\ UNCHANGED <<pc, runNo, cacheOn, slugs, i, results, hashes, diskIndex,
                   attempt, trace, ret, requested, outcome>>
    /\ UNCHANGED exceptFetch


----------------------------------------------------------------------------
(* Reading the event trace of a fetch_company_page call *)

IsGet(e) == e.ev \in {"get_ok", "get_status", "get_error"}

GetPositions(t) == {p \in 1..Len(t) : IsGet(t[p])}

NumGets(t) == Cardinality(GetPositions(t))

\* a failure the fetcher may retry: transient status or transport error
RetryableFailure(e) ==
    \/ e.ev = "get_status" /\ e.arg \in RETRYABLE_STATUS_CODES
    \/ e.ev = "get_error"

TerminalStatus(e) == e.ev = "get_status" /\ e.arg \notin RETRYABLE_STATUS_CODES

JitterPositions(t) == {p \in 1..Len(t) : t[p].ev = "delay_with_jitter"}

\* slugs served so far in this run (from the cache or freshly fetched)
Served == {slugs[k] : k \in {n \in 1..Len(outcome) : outcome[n] # "failed"}}

----------------------------------------------------------------------------
(* Claims on the fetcher, checked under SpecFetch *)

\* C2: whatever the HTTP outcomes are, fetch_company_page returns the page
\* HTML or None and no exception leaves it; a list entry whose fetch
\* returned None adds nothing to the result mapping (the mapping holds
\* exactly the slugs of the entries that were served), and the loop goes on
\* to every later entry: a finished run has processed the whole list.
C2_FetchNeverRaises ==
    /\ pc # "raised"
    /\ pc = "returned" => ret \in Htmls \cup {None}
    /\ Len(outcome) = i
    /\ DOMAIN results = Served
    /\ pc = "done" => i = Len(slugs)

\* a finished run in which an entry failed and a later entry was fetched
C2_Witness ==
    /\ pc = "done"
    /\ \E k \in 1..Len(outcome) :
        /\ outcome[k] = "failed"
        /\ slugs[k] \notin DOMAIN results
        /\ \E m \in (k + 1)..Len(outcome) : outcome[m] = "fetched"

\* C3: one fetch issues at most MAX_RETRIES + 1 requests and the loop
\* variable never passes MAX_RETRIES (so the loop ends); every request but
\* the first follows a retryable failure of attempt k < MAX_RETRIES and a
\* sleep of RETRY_BASE_DELAY * 2^k; after a non-retryable status no further
\* request is made and the call returns None.
C3_BoundedRetries ==
    pc \in {"fetching", "returned"} =>
        LET gets == GetPositions(trace)
            n == Cardinality(gets)
        IN  /\ n <= MAX_RETRIES + 1
            /\ attempt <= MAX_RETRIES
            /\ pc = "fetching" => n = attempt
            /\ pc = "returned" => n = attempt + 1
            /\ \A p \in gets :
                LET k == Cardinality({q \in gets : q < p}) - 1
                IN  /\ p > 1 =>
                        /\ p >= 3
                        /\ k < MAX_RETRIES
                        /\ trace[p - 1] = Event("sleep", RETRY_BASE_DELAY * Pow2(k))
                        /\ RetryableFailure(trace[p - 2])
                    /\ TerminalStatus(trace[p]) =>
                        /\ pc = "returned"
                        /\ ret = None
                        /\ \A q \in gets : q <= p

\* retries exhausted: four requests, backoffs of 2, 4 and 8 seconds, None
C3_Witness ==
    /\ pc = "returned"
    /\ ret = None
    /\ NumGets(trace) = MAX_RETRIES + 1
    /\ \E p \in 1..Len(trace) : trace[p] = Event("sleep", 4 * RETRY_BASE_DELAY)
    /\ RetryableFailure(trace[Len(trace) - 1])

\* C4: every return of fetch_company_page, with HTML or with None, comes
\* right after a rate-limit sleep, and that call made exactly one such sleep,
\* besides its backoff sleeps.
C4_RateLimitBeforeReturn ==
    pc = "returned" =>
        /\ Len(trace) >= 2
        /\ trace[Len(trace)].ev = "delay_with_jitter"
        /\ Cardinality(JitterPositions(trace)) = 1
        /\ IsGet(trace[Len(trace) - 1])

\* giving up on a non-retryable status after a backoff sleep
C4_Witness ==
    /\ pc = "returned"
    /\ ret = None
    /\ TerminalStatus(trace[Len(trace) - 1])
    /\ \E p \in 1..Len(trace) : trace[p].ev = "sleep"
    /\ trace[Len(trace)].ev = "delay_with_jitter"

\* C5: with a cache, the loop serves an entry from the cache, issuing no
\* request, exactly when the cache holds a digest and a blob for the slug;
\* otherwise (blob without digest, digest without blob, neither) it calls
\* fetch_company_page, whose first step is a request.
C5_Decision ==
    (pc = "loop" /\ i < Len(slugs) /\ cacheOn /\ pc' \in {"loop", "fetching"}) =>
        LET s == slugs[i + 1]
            both == s \in DOMAIN hashes /\ s \in DOMAIN blobs
        IN  /\ both =>
                /\ pc' = "loop"
                /\ i' = i + 1
                /\ results' = DictSet(results, s, blobs[s])
                /\ requested' = requested
                /\ outcome' = Append(outcome, "cache")
            /\ ~both =>
                /\ pc' = "fetching"
                /\ i' = i
                /\ results' = results
C5_Requests ==
    /\ pc = "returned" => slugs[i + 1] \in requested
    /\ (pc = "fetching" /\ attempt > 0) => slugs[i + 1] \in requested
C5_CacheHitIffDigestAndBlob == [][C5_Decision]_vars /\ []C5_Requests

\* a slug whose blob is on disk without a digest was requested over HTTP
C5_Witness ==
    /\ pc = "returned"
    /\ cacheOn
    /\ slugs[i + 1] \in DOMAIN blobs
    /\ slugs[i + 1] \notin DOMAIN hashes
    /\ slugs[i + 1] \in requested

\* C6: with a cache, a fetch that returned HTML leaves digest = sha256(html)
\* and blob = html for the slug, changed content or not; a fetch that
\* returned None leaves the slug's digest and blob as they were.
C6_Step ==
    (pc = "returned" /\ pc' = "loop" /\ cacheOn) =>
        LET s == slugs[i + 1]
        IN  /\ ret # None =>
                /\ s \in DOMAIN hashes' /\ hashes'[s] = Sha256(ret)
                /\ s \in DOMAIN blobs' /\ blobs'[s] = ret
            /\ ret = None =>
                /\ DictGet(hashes', s) = DictGet(hashes, s)
                /\ DictGet(blobs', s) = DictGet(blobs, s)
C6_UpdateAfterFetch == [][C6_Step]_vars

\* a fresh fetch replaced a digest that the index file still holds
C6_Witness ==
    /\ pc = "loop"
    /\ cacheOn
    /\ i > 0
    /\ outcome[i] = "fetched"
    /\ slugs[i] \in DOMAIN diskIndex.data
    /\ diskIndex.data[slugs[i]] # hashes[slugs[i]]
    /\ hashes[slugs[i]] = Sha256(blobs[slugs[i]])

\* C7 as claimed: at every point where the crawl can be interrupted, each
\* slug has its digest and its blob persisted together (both or neither),
\* and they agree.
C7_PairsPersistedTogether ==
    ~tampered =>
        \A s \in Slugs :
            /\ s \in DOMAIN diskIndex.data <=> s \in DOMAIN blobs
            /\ (s \in DOMAIN diskIndex.data /\ s \in DOMAIN blobs) =>
                   diskIndex.data[s] = Sha256(blobs[s])

\* C7 as amended: as long as nobody removed a blob by hand, every persisted
\* digest has its blob on disk and equals sha256 of it; a blob may be on
\* disk without a persisted digest.
C7_PersistedDigestMatchesBlob ==
    ~tampered =>
        \A s \in DOMAIN diskIndex.data :
            /\ s \in DOMAIN blobs
            /\ diskIndex.data[s] = Sha256(blobs[s])

\* an interrupted crawl left a blob without digest beside a complete pair
C7_Witness ==
    /\ pc = "killed"
    /\ ~tampered
    /\ \E s \in DOMAIN blobs : s \notin DOMAIN diskIndex.data
    /\ \E t \in DOMAIN diskIndex.data : diskIndex.data[t] = Sha256(blobs[t])

----------------------------------------------------------------------------
(* company.py: the parser.  A page is what the extractors' selectors find   *)
(* in the document, in document order:                                     *)
(*   name, description, website, socials, whyPartnered  extracted values,  *)
(*   categoryLabels  get_text(strip=True) of each "_categories=" link,     *)
(*   milestoneItems  per item of the Milestones list: the keywords its     *)
(*                   lowercased text contains and int() of its first       *)
(*                   four-digit number (NoneInt without one),              *)
(*   teamItems, partnerItems  get_text(strip=True) of each list item.      *)

DIRECTORY_BASE == "https://sequoiacap.com/our-companies/"
PROFILE_BASE == "https://sequoiacap.com/companies/"

\* Python truthiness of an Optional[str] held as a string / as a text / of an int
TruthyStr(x) == x # None /\ x # ""
TruthyInt(y) == y # NoneInt /\ y # 0

EmptyMilestones ==
    [founded_year |-> NoneInt, partnered_year |-> NoneInt,
     ipo_year |-> NoneInt, acquired_year |-> NoneInt]

\* _extract_categories: "if label and label not in cats: cats.append(label)"
RECURSIVE CollectLabels(_, _)
CollectLabels(labels, cats) ==
    IF labels = <<>> THEN cats
    ELSE CollectLabels(Tail(labels),
                       IF Head(labels) # <<>> /\ Head(labels) \notin Range(cats)
                       THEN Append(cats, Head(labels))
                       ELSE cats)

extract_categories(page) == CollectLabels(page.categoryLabels, <<>>)

\* _extract_socials: platform_patterns, in the order of the dict
PLATFORM_PATTERNS ==
    <<[platform |-> "twitter", domain |-> "twitter.com"],
      [platform |-> "linkedin", domain |-> "linkedin.com"],
      [platform |-> "instagram", domain |-> "instagram.com"],
      [platform |-> "facebook", domain |-> "facebook.com"],
      [platform |-> "youtube", domain |-> "youtube.com"],
      [platform |-> "github", domain |-> "github.com"]>>

\* The targets of the hyperlinks of a page, and the platform domains each
\* holds as a substring.
Hrefs ==
    {"https://twitter.com/airbnb", "https://twitter.com/airbnbeng",
     "https://linkedin.com/company/airbnb",
     "https://twitter.com/intent/tweet?url=linkedin.com/company/airbnb",
     "https://airbnb.com"}

DomainsIn(href) ==
    CASE href \in {"https://twitter.com/airbnb", "https://twitter.com/airbnbeng"} ->
             {"twitter.com"}
      [] href = "https://linkedin.com/company/airbnb" -> {"linkedin.com"}
      [] href = "https://twitter.com/intent/tweet?url=linkedin.com/company/airbnb" ->
             {"twitter.com", "linkedin.com"}
      [] OTHER -> {}

\* _extract_socials: the inner loop for one link, which ends at the first
\* platform it records
RecordLink(socials, href) ==
    LET fits == {n \in DOMAIN PLATFORM_PATTERNS :
                    /\ PLATFORM_PATTERNS[n].domain \in DomainsIn(href)
                    /\ PLATFORM_PATTERNS[n].platform \notin DOMAIN socials}
    IN  IF fits = {} THEN socials
        ELSE LET n == CHOOSE n \in fits : \A k \in fits : n <= k
             IN  DictSet(socials, PLATFORM_PATTERNS[n].platform, href)

\* _extract_socials: the outer loop over the links, in document order
RECURSIVE ScanLinks(_, _)
ScanLinks(links, socials) ==
    IF links = <<>> THEN socials
    ELSE ScanLinks(Tail(links), RecordLink(socials, Head(links)))

extract_socials(links) == ScanLinks(links, EmptyDict)

\* _extract_milestones: the classification of one item
ClassifyItem(m, item) ==
    IF item.year = NoneInt THEN m
    ELSE IF "founded" \in item.has THEN [m EXCEPT !.founded_year = item.year]
    ELSE IF "partnered" \in item.has THEN [m EXCEPT !.partnered_year = item.year]
    ELSE IF "ipo" \in item.has THEN [m EXCEPT !.ipo_year = item.year]
    ELSE IF "acquired" \in item.has \/ "acquisition" \in item.has
    THEN [m EXCEPT !.acquired_year = item.year]
    ELSE m

RECURSIVE ClassifyItems(_, _)
ClassifyItems(m, items) ==
    IF items = <<>> THEN m
    ELSE ClassifyItems(ClassifyItem(m, Head(items)), Tail(items))

extract_milestones(page) == ClassifyItems(EmptyMilestones, page.milestoneItems)

\* "if li.get_text(strip=True)": the items with text, in page order
RECURSIVE NonEmpty(_)
NonEmpty(items) ==
    IF items = <<>> THEN <<>>
    ELSE (IF Head(items) # <<>> THEN <<Head(items)>> ELSE <<>>) \o NonEmpty(Tail(items))

\* _extract_team: one {name, role: None} per non-empty item
extract_team(page) ==
    LET names == NonEmpty(page.teamItems)
    IN  [n \in DOMAIN names |-> [name |-> names[n], role |-> None]]

\* _extract_partners: the non-empty items
extract_partners(page) == NonEmpty(page.partnerItems)

\* _infer_stage
InferStageRawLabel(milestones) ==
    IF TruthyInt(milestones.acquired_year) THEN "acquired"
    ELSE IF TruthyInt(milestones.ipo_year) THEN "public"
    ELSE None
infer_stage(milestones) ==
    IF TruthyInt(milestones.acquired_year) THEN "acquired"
    ELSE IF TruthyInt(milestones.ipo_year) THEN "ipo"
    ELSE None

\* primary_partner = partner_ids[0] if partner_ids else None
PrimaryPartnerLast(partner_ids) ==
    IF partner_ids # <<>> THEN partner_ids[Len(partner_ids)] ELSE NoneText
PrimaryPartner(partner_ids) ==
    IF partner_ids # <<>> THEN partner_ids[1] ELSE NoneText

\* parse_company
parse_company(slug, page) ==
    LET categories_raw == extract_categories(page)
        milestones == extract_milestones(page)
        partners_raw == extract_partners(page)
        category_ids == [n \in DOMAIN categories_raw |->
                            normalize_category_id(categories_raw[n])]
        partner_ids == [n \in DOMAIN partners_raw |->
                            normalize_partner_id(partners_raw[n])]
    IN  [id |-> <<"sequoia:", slug>>,
         sequoia_id |-> None,
         name |-> page.name,
         slug |-> slug,
         description |-> page.description,
         website |-> page.website,
         socials |-> page.socials,
         categories |-> category_ids,
         current_stage |-> infer_stage(milestones),
         first_partnered_year |-> milestones.partnered_year,
         partners |-> partner_ids,
         primary_partner |-> PrimaryPartner(partner_ids),
         milestones |-> milestones,
         team |-> extract_team(page),
         why_partnered |-> page.whyPartnered,
         source_urls |-> [directory |-> DIRECTORY_BASE,
                          profile |-> <<PROFILE_BASE, slug, "/">>]]

----------------------------------------------------------------------------
(* directory.py: directory rows and the merge *)

\* _parse_directory_page: the entry built from one table row
DirectoryEntry(row) ==
    [sequoia_id |-> IF row.id_text # "" THEN row.id_text ELSE None,
     stage_raw |-> row.stage_raw,
     stage |-> normalize_stage(row.stage_raw)]

\* merge_directory_data: the body of the loop, for one company of the list
MergeOneFillOnly(company, dir) ==
    LET dir_data == dir[company.slug]
    IN  IF company.slug \notin DOMAIN dir THEN company
        ELSE [company EXCEPT
                !.current_stage = IF company.current_stage = None
                                  THEN dir_data.stage ELSE @,
                !.sequoia_id = IF TruthyStr(dir_data.sequoia_id)
                               THEN dir_data.sequoia_id ELSE @]
MergeOneOverwriteAll(company, dir) ==
    LET dir_data == dir[company.slug]
    IN  IF company.slug \notin DOMAIN dir THEN company
        ELSE [company EXCEPT
                !.current_stage = dir_data.stage,
                !.sequoia_id = dir_data.sequoia_id]
MergeOne(company, dir) ==
    LET dir_data == dir[company.slug]
    IN  IF company.slug \notin DOMAIN dir THEN company
        ELSE [company EXCEPT
                !.current_stage = IF TruthyStr(dir_data.stage)
                                  THEN dir_data.stage ELSE @,
                !.sequoia_id = IF TruthyStr(dir_data.sequoia_id)
                               THEN dir_data.sequoia_id ELSE @]

\* merge_directory_data
merge_directory_data(cs, dir) ==
    [n \in DOMAIN cs |-> MergeOne(cs[n], dir)]

----------------------------------------------------------------------------
(* static.py: the output root and build_all.  The root holds, per          *)
(* subdirectory, a dict file stem -> document; all.json and meta.json are  *)
(* [exists, json, data], json telling what json.load makes of the file:    *)
(* "object", "list" or "garbled" (not JSON).                               *)

SCHEMA_VERSION == "1.0.0"

SUBDIRS == {"companies", "stages", "categories", "partners", "first-partnered"}

EmptyMeta ==
    [last_updated_iso |-> "", schema_version |-> "", total_companies |-> 0,
     counts_by_stage |-> EmptyDict, counts_by_category |-> EmptyDict,
     source_entry_url |-> ""]

EmptyTree ==
    [dirs |-> {},
     all |-> [exists |-> FALSE, json |-> "list", data |-> <<>>],
     companies |-> EmptyDict,
     stages |-> EmptyDict,
     categories |-> EmptyDict,
     partners |-> EmptyDict,
     years |-> EmptyDict,
     meta |-> [exists |-> FALSE, json |-> "object", data |-> EmptyMeta]]

\* _company_summary
company_summary(company) ==
    [id |-> company.id, name |-> company.name, slug |-> company.slug]

\* str.upper, character by character
UpperChar(c) ==
    IF c \in Range(LowerLetters)
    THEN UpperLetters[CHOOSE n \in DOMAIN LowerLetters : LowerLetters[n] = c]
    ELSE c

IsLetter(c) == c \in Range(LowerLetters) \cup Range(UpperLetters)

\* str.title
RECURSIVE TitleFrom(_, _)
TitleFrom(t, prevCased) ==
    IF t = <<>> THEN <<>>
    ELSE IF IsLetter(Head(t))
    THEN <<IF prevCased THEN LowerChar(Head(t)) ELSE UpperChar(Head(t))>>
         \o TitleFrom(Tail(t), TRUE)
    ELSE <<Head(t)>> \o TitleFrom(Tail(t), FALSE)

\* cat_id.replace("-", " ").title()
LabelOfId(id) == TitleFrom([n \in DOMAIN id |-> IF id[n] = "-" THEN " " ELSE id[n]], FALSE)

\* stage_id.replace("-", " ").title(), on the stage ids
LabelOfStage(stage_id) ==
    CASE stage_id = "pre-seed-seed" -> "Pre Seed Seed"
      [] stage_id = "early" -> "Early"
      [] stage_id = "growth" -> "Growth"
      [] stage_id = "ipo" -> "Ipo"
      [] stage_id = "acquired" -> "Acquired"
      [] stage_id = "unknown" -> "Unknown"
      [] OTHER -> stage_id

\* The loops over the batch are written by halves: the first half of the
\* list, then the second, which is the list order with a shallow evaluation.

\* _group_by_stage: the summaries of one stage, in list order
RECURSIVE StageEntries(_, _)
StageEntries(st, cs) ==
    IF cs = <<>> THEN <<>>
    ELSE IF Len(cs) = 1
    THEN (IF cs[1].current_stage = st THEN <<company_summary(cs[1])>> ELSE <<>>)
    ELSE StageEntries(st, SubSeq(cs, 1, Len(cs) \div 2))
         \o StageEntries(st, SubSeq(cs, Len(cs) \div 2 + 1, Len(cs)))

\* _group_by_year: the summaries of one year, in list order
RECURSIVE YearEntries(_, _)
YearEntries(y, cs) ==
    IF cs = <<>> THEN <<>>
    ELSE IF Len(cs) = 1
    THEN (IF cs[1].first_partnered_year = y THEN <<company_summary(cs[1])>> ELSE <<>>)
    ELSE YearEntries(y, SubSeq(cs, 1, Len(cs) \div 2))
         \o YearEntries(y, SubSeq(cs, Len(cs) \div 2 + 1, Len(cs)))

\* one summary per occurrence of id in the list ids
RECURSIVE Repeated(_, _, _)
Repeated(summary, id, ids) ==
    IF ids = <<>> THEN <<>>
    ELSE (IF Head(ids) = id THEN <<summary>> ELSE <<>>) \o Repeated(summary, id, Tail(ids))

\* _group_by_stage: "if stage: groups[stage].append(summary)"
group_by_stage(cs) ==
    LET keys == {cs[n].current_stage : n \in
                    {k \in DOMAIN cs : TruthyStr(cs[k].current_stage)}}
    IN  [st \in keys |-> StageEntries(st, cs)]

\* _group_by_category: the entries of one category id
RECURSIVE CategoryEntries(_, _)
CategoryEntries(id, cs) ==
    IF cs = <<>> THEN <<>>
    ELSE IF Len(cs) = 1 THEN Repeated(company_summary(cs[1]), id, cs[1].categories)
    ELSE CategoryEntries(id, SubSeq(cs, 1, Len(cs) \div 2))
         \o CategoryEntries(id, SubSeq(cs, Len(cs) \div 2 + 1, Len(cs)))

\* _group_by_category
group_by_category(cs) ==
    LET keys == UNION {Range(cs[n].categories) : n \in DOMAIN cs}
    IN  [id \in keys |-> [label |-> LabelOfId(id), entries |-> CategoryEntries(id, cs)]]

\* _group_by_partner: the entries of one partner id
RECURSIVE PartnerEntries(_, _)
PartnerEntries(id, cs) ==
    IF cs = <<>> THEN <<>>
    ELSE IF Len(cs) = 1 THEN Repeated(company_summary(cs[1]), id, cs[1].partners)
    ELSE PartnerEntries(id, SubSeq(cs, 1, Len(cs) \div 2))
         \o PartnerEntries(id, SubSeq(cs, Len(cs) \div 2 + 1, Len(cs)))

\* _group_by_partner
group_by_partner(cs) ==
    LET keys == UNION {Range(cs[n].partners) : n \in DOMAIN cs}
    IN  [id \in keys |-> [label |-> LabelOfId(id), entries |-> PartnerEntries(id, cs)]]

\* _group_by_year: "if year: groups[year].append(summary)"
group_by_year(cs) ==
    LET keys == {cs[n].first_partnered_year : n \in
                    {k \in DOMAIN cs : TruthyInt(cs[k].first_partnered_year)}}
    IN  [y \in keys |-> YearEntries(y, cs)]

\* _build_meta
build_meta(cs, stages, categories) ==
    [last_updated_iso |-> "utcnow",
     schema_version |-> SCHEMA_VERSION,
     total_companies |-> Len(cs),
     counts_by_stage |-> [k \in DOMAIN stages |-> Len(stages[k])],
     counts_by_category |-> [k \in DOMAIN categories |-> Len(categories[k].entries)],
     source_entry_url |-> "https://sequoiacap.com/our-companies/"]

\* the per-slug files: a later record of the same slug overwrites an earlier one
WriteCompanies(files, cs) ==
    LET written == {cs[n].slug : n \in DOMAIN cs}
        lastOf(slug) == CHOOSE n \in DOMAIN cs :
                          /\ cs[n].slug = slug
                          /\ \A m \in DOMAIN cs : cs[m].slug = slug => m <= n
    IN  [slug \in written \cup DOMAIN files |->
            IF slug \in written THEN cs[lastOf(slug)] ELSE files[slug]]

\* build_all: every file is written with open(path, "w"); files already in
\* the root that this batch does not name stay.  The file of a record whose
\* slug is "all" is companies/all.json: written after the list, it
\* replaces the list by the record, a JSON object.
build_all(root, cs) ==
    LET stages == group_by_stage(cs)
        categories == group_by_category(cs)
        partners == group_by_partner(cs)
        by_year == group_by_year(cs)
        files == WriteCompanies(root.companies, cs)
    IN  [dirs |-> root.dirs \cup SUBDIRS,
         all |-> IF \E n \in DOMAIN cs : cs[n].slug = "all"
                 THEN [exists |-> TRUE, json |-> "object", data |-> <<>>]
                 ELSE [exists |-> TRUE, json |-> "list", data |-> cs],
         companies |-> [slug \in DOMAIN files \ {"all"} |-> files[slug]],
         stages |-> [st \in DOMAIN stages |->
                        [id |-> st, label |-> LabelOfStage(st), companies |-> stages[st]]]
                    @@ root.stages,
         categories |-> [id \in DOMAIN categories |->
                            [id |-> id, label |-> categories[id].label,
                             companies |-> categories[id].entries]]
                        @@ root.categories,
         partners |-> [id \in DOMAIN partners |->
                          [id |-> id, name |-> partners[id].label,
                           companies |-> partners[id].entries]]
                      @@ root.partners,
         years |-> [y \in DOMAIN by_year |-> [year |-> y, companies |-> by_year[y]]]
                   @@ root.years,
         meta |-> [exists |-> TRUE, json |-> "object",
                   data |-> build_meta(cs, stages, categories)]]

----------------------------------------------------------------------------
(* validate/postbuild.py.  A defect is [msg, about, n]: the message, the   *)
(* field or directory it names ("" when none) and the number it quotes (0  *)
(* when none).  An entry of all.json that is no JSON object is written     *)
(* [json_string |-> ...].                                                  *)

REQUIRED_SUBDIRS == <<"companies", "stages", "categories", "partners", "first-partnered">>
MIN_COMPANIES == 100

Defect(msg, about, n) == [msg |-> msg, about |-> about, n |-> n]

\* step 2: "for field in (...): if field not in meta"
MetaFieldDefects(meta) ==
    LET missing == SelectSeq(<<"last_updated_iso", "schema_version", "total_companies">>,
                             LAMBDA field : field \notin DOMAIN meta)
    IN  [k \in DOMAIN missing |-> Defect("meta.json missing field", missing[k], 0)]

\* step 4: os.path.isdir(subdir_path), and a file of os.listdir ending in .json
HasJsonFile(dir, subdir) ==
    CASE subdir = "companies" -> dir.all.exists \/ DOMAIN dir.companies # {}
      [] subdir = "stages" -> DOMAIN dir.stages # {}
      [] subdir = "categories" -> DOMAIN dir.categories # {}
      [] subdir = "partners" -> DOMAIN dir.partners # {}
      [] OTHER -> DOMAIN dir.years # {}

SubdirDefects(dir) ==
    LET bad == SelectSeq(REQUIRED_SUBDIRS,
                         LAMBDA subdir : subdir \notin dir.dirs \/ ~HasJsonFile(dir, subdir))
    IN  [k \in DOMAIN bad |->
            IF bad[k] \notin dir.dirs THEN Defect("Missing directory", bad[k], 0)
            ELSE Defect("Empty directory", bad[k], 0)]

\* step 5
AllJsonDefects(dir) ==
    IF ~dir.all.exists THEN <<Defect("companies/all.json not found", "", 0)>>
    ELSE IF dir.all.json = "garbled" THEN <<Defect("companies/all.json unreadable", "", 0)>>
    ELSE IF dir.all.json # "list"
    THEN <<Defect("companies/all.json has too few entries", "", 0)>>
    ELSE IF Len(dir.all.data) < MIN_COMPANIES
    THEN <<Defect("companies/all.json has too few entries", "", Len(dir.all.data))>>
    ELSE <<>>

\* os.path.isfile(companies/<slug>.json); all.json is a file of that directory too
HasSlugFile(dir, slug) ==
    slug \in DOMAIN dir.companies \/ (slug = "all" /\ dir.all.exists)

\* step 6: c.get("slug", "") raises on an entry that is no object, the
\* "except Exception: pass" around the loop then drops the count.
SlugFileDefects(dir) ==
    LET entries == dir.all.data
        missing == Cardinality({k \in DOMAIN entries :
                       ~HasSlugFile(dir, IF "slug" \in DOMAIN entries[k]
                                         THEN entries[k].slug ELSE "")})
    IN  IF \E k \in DOMAIN entries : "json_string" \in DOMAIN entries[k] THEN <<>>
        ELSE IF missing > 0
        THEN <<Defect("company slug files missing from companies/", "", missing)>>
        ELSE <<>>

\* validate_build
validate_build(dir) ==
    IF ~dir.meta.exists THEN <<Defect("meta.json not found", "", 0)>>
    ELSE IF dir.meta.json = "garbled" THEN <<Defect("meta.json unreadable", "", 0)>>
    ELSE LET meta == dir.meta.data
             total == IF "total_companies" \in DOMAIN meta THEN meta.total_companies ELSE 0
             upto5 == MetaFieldDefects(meta)
                      \o (IF total < MIN_COMPANIES
                          THEN <<Defect("total_companies is below minimum threshold", "", total)>>
                          ELSE <<>>)
                      \o SubdirDefects(dir)
                      \o AllJsonDefects(dir)
         IN  upto5 \o (IF dir.all.exists /\ upto5 = <<>> THEN SlugFileDefects(dir) ELSE <<>>)

----------------------------------------------------------------------------
(* The inputs of a pipeline run *)

CompanySlugs == {"airbnb", "figma", "stripe"}

NameLin == <<"A", "l", " ", "L", "i", "n">>
NameLinHyphen == <<"a", "l", "-", "l", "i", "n">>
NameBotha == <<"R", ".", " ", "B", "o", "t", "h", "a">>
NameSymbols == <<"!", "!">>
LabelFintech == <<"F", "i", "n", "t", "e", "c", "h">>
LabelFintechLower == <<"f", "i", "n", "t", "e", "c", "h">>
LabelAI == <<"A", "I", "/", "M", "L">>

Item(has, year) == [has |-> has, year |-> year]

Page(name, categoryLabels, milestoneItems, partnerItems) ==
    [name |-> name, description |-> None, website |-> None, socials |-> EmptyDict,
     whyPartnered |-> None, teamItems |-> <<>>,
     categoryLabels |-> categoryLabels,
     milestoneItems |-> milestoneItems,
     partnerItems |-> partnerItems]

\* Profile pages: without milestones and partners; with an IPO; acquired
\* after an IPO, its first partner name all punctuation; partnered only,
\* with two spellings of one partner and of one category.
PipelinePages ==
    {Page("Bare", <<>>, <<>>, <<>>),
     Page("Listed", <<LabelFintech>>,
          <<Item({"founded"}, 2007), Item({"ipo"}, 2020)>>, <<NameLin>>),
     Page("Bought", <<LabelAI, LabelFintech>>,
          <<Item({"ipo"}, 2020), Item({"acquired"}, 2021)>>, <<NameSymbols, NameBotha>>),
     Page("Early", <<LabelFintech, LabelFintechLower>>,
          <<Item({"partnered"}, 2009), Item({}, 2010)>>, <<NameBotha, NameLin, NameLinHyphen>>)}

\* Directory rows, as id cell and stage cell: a mapped label, an empty
\* stage cell, an empty id cell with a label the table does not know.
DirectoryRows ==
    {[id_text |-> "218", stage_raw |-> <<"G", "r", "o", "w", "t", "h", " ">>],
     [id_text |-> "77", stage_raw |-> <<>>],
     [id_text |-> "", stage_raw |-> <<"S", "P", "A", "C">>]}

\* The slugs the directory listing may hold; figma is never listed.
DirectorySlugs == {"airbnb", "stripe"}

\* the lists without repetition over S of length at most n
InjectiveSeqs(S, n) ==
    {l \in SeqsUpTo(S, n) : \A a, b \in DOMAIN l : a # b => l[a] # l[b]}

\* An output directory left by an earlier build of one company.
OldBatch == <<parse_company("dropbox", Page("Dropbox", <<LabelFintech>>,
                <<Item({"partnered"}, 2007), Item({"ipo"}, 2018)>>, <<NameLin>>))>>
OldTree == build_all(EmptyTree, OldBatch)

----------------------------------------------------------------------------
(* SpecCalls: the pure functions, called on inputs drawn from bounded sets *)

\* The characters of the texts: a capital and a small letter, a digit, the
\* space and the no-break space, the hyphen, a punctuation mark, a letter
\* with an accent and a character without ASCII form.
TextChars == {"A", "b", "1", " ", "nbsp", "-", "!", "e_acute", "cjk"}

Texts == SeqsUpTo(TextChars, MaxLen)

\* The labels of a stage cell: no cell text at all, the texts, and each key
\* of the table and one label the table does not know, as written, with a
\* capital first letter, and with white space around them.
NewLabel == <<"S", "o", "m", "e", "t", "h", "i", "n", "g", " ", "N", "e", "w">>

Capitalized(t) == IF t = <<>> THEN t ELSE <<UpperChar(Head(t))>> \o Tail(t)

StageLabels ==
    {NoneText} \cup Texts \cup
    {pre \o form \o post :
        pre \in {<<>>, <<" ">>}, post \in {<<>>, <<" ", " ">>},
        form \in UNION {{k, Capitalized(k)} : k \in {e.key : e \in RAW_TO_STAGE} \cup {NewLabel}}}

\* The items of a Milestones list: the keywords in the text of the item and
\* its first four-digit number ("0000" reads as 0).
KeywordSets ==
    {{}, {"founded"}, {"partnered"}, {"ipo"}, {"acquired"}, {"acquisition"},
     {"ipo", "acquired"}, {"founded", "acquired"}}

Years == {NoneInt, 0, 2019, 2021}

MilestoneItems == {Item(has, year) : has \in KeywordSets, year \in Years}

\* The texts of category links and of the items of the Partners list
CategoryLabels == {<<>>, LabelFintech, LabelFintechLower, LabelAI}
PartnerNames == {<<>>, NameLin, NameLinHyphen, NameBotha, NameSymbols}

CallsIdle ==
    /\ fn = "none"
    /\ fnArg = None
    /\ fnRet = None

CallSlugify ==
    /\ fn = "none"
    /\ \E text \in Texts :
        /\ fnArg' = text
        /\ fnRet' = slugify(text)
    /\ fn' = "slugify"
    /\ UNCHANGED exceptCalls

CallNormalizeStage ==
    /\ fn = "none"
    /\ \E raw \in StageLabels :
        /\ fnArg' = raw
        /\ fnRet' = normalize_stage(raw)
    /\ fn' = "normalize_stage"
    /\ UNCHANGED exceptCalls

\* parse_company on a page with a Milestones list
CallParseMilestones ==
    /\ fn = "none"
    /\ \E items \in SeqsUpTo(MilestoneItems, MaxItems) :
        LET page == Page("Airbnb", <<>>, items, <<>>)
        IN  /\ fnArg' = page
            /\ fnRet' = parse_company("airbnb", page)
    /\ fn' = "parse_company"
    /\ UNCHANGED exceptCalls

\* parse_company on a page with category links and a Partners list
CallParseLists ==
    /\ fn = "none"
    /\ \E labels \in SeqsUpTo(CategoryLabels, MaxItems),
          names \in SeqsUpTo(PartnerNames, MaxItems) :
        LET page == Page("Airbnb", labels, <<>>, names)
        IN  /\ fnArg' = page
            /\ fnRet' = parse_company("airbnb", page)
    /\ fn' = "parse_company"
    /\ UNCHANGED exceptCalls

\* _extract_socials on the links of a page
CallExtractSocials ==
    /\ fn = "none"
    /\ \E links \in SeqsUpTo(Hrefs, MaxLinks) :
        /\ fnArg' = links
        /\ fnRet' = extract_socials(links)
    /\ fn' = "extract_socials"
    /\ UNCHANGED exceptCalls

----------------------------------------------------------------------------
(* Claims on the pure functions, checked under SpecCalls *)

\* C11 as claimed: the stage parse_company infers is "acquired" when the
\* record has an acquired year (with or without an ipo year), otherwise
\* "ipo" when it has an ipo year, otherwise None.
C11_InferredStage ==
    fn = "parse_company" =>
        LET m == fnRet.milestones
        IN  fnRet.current_stage =
                IF m.acquired_year # NoneInt THEN "acquired"
                ELSE IF m.ipo_year # NoneInt THEN "ipo"
                ELSE None

C19_FirstItemWins ==
    fn = "parse_company" =>
        LET items == fnArg.milestoneItems
            Slot(item) ==
                IF "founded" \in item.has THEN "founded_year"
                ELSE IF "partnered" \in item.has THEN "partnered_year"
                ELSE IF "ipo" \in item.has THEN "ipo_year"
                ELSE IF item.has \cap {"acquired", "acquisition"} # {} THEN "acquired_year"
                ELSE "none"
        IN  \A slot \in DOMAIN fnRet.milestones :
                LET of_slot == {n \in DOMAIN items :
                                   items[n].year # NoneInt /\ Slot(items[n]) = slot}
                IN  of_slot # {} =>
                        fnRet.milestones[slot] =
                            items[CHOOSE n \in of_slot : \A k \in of_slot : n <= k].year

\* C20 as claimed: categories and partners of a parsed record hold no
\* identifier twice, and the identifiers stand in the order in which they
\* first appear on the page.
C20_IdsDeduplicated ==
    fn = "parse_company" =>
        LET NoRepeat(ids) == \A n, k \in DOMAIN ids : ids[n] = ids[k] => n = k
            Ids(texts) == [n \in DOMAIN texts |-> slugify(texts[n])]
            First(id, ids) == CHOOSE n \in DOMAIN ids : ids[n] = id /\ \A k \in 1..(n - 1) : ids[k] # id
            InPageOrder(ids, on_page) ==
                /\ Range(ids) = Range(on_page)
                /\ \A n, k \in DOMAIN ids :
                       n < k => First(ids[n], on_page) <= First(ids[k], on_page)
        IN  /\ NoRepeat(fnRet.categories)
            /\ NoRepeat(fnRet.partners)
            /\ InPageOrder(fnRet.categories, Ids(NonEmpty(fnArg.categoryLabels)))
            /\ InPageOrder(fnRet.partners, Ids(NonEmpty(fnArg.partnerItems)))

\* C21 as claimed: for each platform, socials holds the platform exactly
\* when some link of the page holds the platform's domain, and then holds
\* the first such link in document order.
C21_FirstLinkPerPlatform ==
    fn = "extract_socials" =>
        \A n \in DOMAIN PLATFORM_PATTERNS :
            LET pat == PLATFORM_PATTERNS[n]
                hits == {k \in DOMAIN fnArg : pat.domain \in DomainsIn(fnArg[k])}
            IN  /\ pat.platform \in DOMAIN fnRet <=> hits # {}
                /\ hits # {} =>
                       fnRet[pat.platform] = fnArg[CHOOSE k \in hits : \A j \in hits : k <= j]

----------------------------------------------------------------------------
(* SpecPostbuild: postbuild.main on a build directory *)

\* all.json: absent, not JSON, a JSON object, or a list: no entry or
\* MIN_COMPANIES - MaxTail entries of one slug, then up to MaxTail entries
\* that are an object with a slug, an object without, or a string.
Entry(slug) == [slug |-> slug]

AllJsonFiles ==
    {[exists |-> FALSE, json |-> "list", data |-> <<>>],
     [exists |-> TRUE, json |-> "garbled", data |-> <<>>],
     [exists |-> TRUE, json |-> "object", data |-> <<>>]}
    \cup
    {[exists |-> TRUE, json |-> "list",
      data |-> [k \in 1..n |-> Entry("dropbox")] \o tail] :
        n \in {0, MIN_COMPANIES - MaxTail},
        tail \in SeqsUpTo({Entry("airbnb"), Entry("stripe"),
                           [name |-> "Figma"], [json_string |-> "figma"]}, MaxTail)}

\* meta.json: absent, not JSON, or an object with all fields or all but one
\* required field, total_companies just below or at the threshold
MetaFiles ==
    {[exists |-> FALSE, json |-> "object", data |-> EmptyMeta],
     [exists |-> TRUE, json |-> "garbled", data |-> EmptyMeta]}
    \cup
    {[exists |-> TRUE, json |-> "object",
      data |-> [f \in DOMAIN EmptyMeta \ absent |->
                   IF f = "total_companies" THEN total ELSE EmptyMeta[f]]] :
        absent \in {{}, {"last_updated_iso"}, {"schema_version"}, {"total_companies"}},
        total \in {MIN_COMPANIES - 1, MIN_COMPANIES}}

\* The build directories: with or without the stages directory, the
\* partners directory with or without a file, any of three per-slug files.
BuildDirs ==
    {[dirs |-> dirs,
      all |-> all,
      companies |-> [slug \in files |-> Entry(slug)],
      stages |-> [k \in {"ipo"} |-> "ipo.json"],
      categories |-> [k \in {"fintech"} |-> "fintech.json"],
      partners |-> [k \in partner_files |-> "alfred-lin.json"],
      years |-> [k \in {2009} |-> "2009.json"],
      meta |-> meta] :
        dirs \in {SUBDIRS, SUBDIRS \ {"stages"}},
        all \in AllJsonFiles,
        files \in SUBSET {"dropbox", "airbnb", "stripe"},
        partner_files \in {{}, {"alfred-lin"}},
        meta \in MetaFiles}

PostbuildIdle ==
    /\ vpc = "idle"
    /\ build_dir = EmptyTree
    /\ defects = <<>>
    /\ vexit = NoneInt

\* main: build_dir = sys.argv[1], an existing directory
PostbuildStart ==
    /\ vpc = "idle"
    /\ build_dir' \in BuildDirs
    /\ vpc' = "start"
    /\ UNCHANGED <<defects, vexit>>
    /\ UNCHANGED exceptPostbuild

\* main: errors = validate_build(build_dir); sys.exit(1) if errors else sys.exit(0)
PostbuildMain ==
    /\ vpc = "start"
    /\ defects' = validate_build(build_dir)
    /\ vexit' = IF defects' # <<>> THEN 1 ELSE 0
    /\ vpc' = "exited"
    /\ UNCHANGED build_dir
    /\ UNCHANGED exceptPostbuild

----------------------------------------------------------------------------
(* Claims on validate_build, checked under SpecPostbuild *)

\* C12 as claimed: with a readable meta.json, a total_companies below
\* MIN_COMPANIES gives a defect quoting it, a missing companies/all.json
\* gives a defect naming the file; and the defect list is empty, the exit
\* code 0, exactly when meta.json has the required fields, total_companies
\* and the length of all.json are at least MIN_COMPANIES, every required
\* subdirectory holds a .json file and every entry of all.json has its
\* per-slug file (an entry without slug standing for the slug "").
C12_PostbuildVerdict ==
    vpc = "exited" =>
        LET dir == build_dir
            readable == dir.meta.exists /\ dir.meta.json = "object"
            meta == dir.meta.data
            entries == dir.all.data
            well_formed ==
                /\ readable
                /\ {"last_updated_iso", "schema_version", "total_companies"} \subseteq DOMAIN meta
                /\ meta.total_companies >= MIN_COMPANIES
                /\ dir.all.exists
                /\ dir.all.json = "list"
                /\ Len(entries) >= MIN_COMPANIES
                /\ \A n \in DOMAIN REQUIRED_SUBDIRS :
                       /\ REQUIRED_SUBDIRS[n] \in dir.dirs
                       /\ HasJsonFile(dir, REQUIRED_SUBDIRS[n])
                /\ \A k \in DOMAIN entries :
                       \/ "json_string" \in DOMAIN entries[k]
                       \/ HasSlugFile(dir, IF "slug" \in DOMAIN entries[k]
                                           THEN entries[k].slug ELSE "")
        IN  /\ (/\ readable
                /\ "total_companies" \in DOMAIN meta
                /\ meta.total_companies < MIN_COMPANIES) =>
                   \E n \in DOMAIN defects :
                       /\ defects[n].msg = "total_companies is below minimum threshold"
                       /\ defects[n].n = meta.total_companies
            /\ (readable /\ ~dir.all.exists) =>
                   \E n \in DOMAIN defects : defects[n].msg = "companies/all.json not found"
            /\ (defects = <<>>) <=> well_formed
            /\ (vexit = 0) <=> well_formed

\* C13 as claimed: when an entry of all.json names a slug without
\* companies/<slug>.json, validate_build returns defects; when nothing else
\* is wrong with the directory, the list is the defect that counts the
\* missing per-slug files; and a run of postbuild.main leaves the directory
\* as it found it.
C13_MissingSlugFileFails ==
    /\ [](vpc = "exited" =>
            LET dir == build_dir
                entries == dir.all.data
                orphans == {k \in DOMAIN entries :
                               /\ "slug" \in DOMAIN entries[k]
                               /\ ~HasSlugFile(dir, entries[k].slug)}
                rest_is_fine ==
                    /\ dir.meta.exists
                    /\ dir.meta.json = "object"
                    /\ {"last_updated_iso", "schema_version", "total_companies"}
                           \subseteq DOMAIN dir.meta.data
                    /\ dir.meta.data.total_companies >= MIN_COMPANIES
                    /\ Len(entries) >= MIN_COMPANIES
                    /\ \A k \in DOMAIN entries : "slug" \in DOMAIN entries[k]
                    /\ \A n \in DOMAIN REQUIRED_SUBDIRS :
                           /\ REQUIRED_SUBDIRS[n] \in dir.dirs
                           /\ HasJsonFile(dir, REQUIRED_SUBDIRS[n])
            IN  (dir.all.exists /\ dir.all.json = "list" /\ orphans # {}) =>
                    /\ defects # <<>>
                    /\ vexit = 1
                    /\ rest_is_fine =>
                           defects = <<Defect("company slug files missing from companies/",
                                              "", Cardinality(orphans))>>)
    /\ [][vpc # "idle" => build_dir' = build_dir]_vars

----------------------------------------------------------------------------
(* SpecStartup: run_build.main, steps 1 to 3, with fetch_directory_data    *)
(* unrolled page by page.  The run logs its requests in trace: the         *)
(* sitemap request, then one event per directory page.                     *)

\* .cache/content_hashes.json holding text that is not JSON
MalformedFile == [file |-> "malformed", data |-> EmptyDict]

\* ContentCache._load: json.load raises on an index that is not JSON;
\* nothing in __init__ or main catches it.
LoadNeverRaises(index) == FALSE
LoadRaises(index) == index.file = "malformed"

\* The cache directories a run may find: none, one left by a finished run,
\* one whose index was damaged, one whose index was deleted.
CacheDirs ==
    LET html == "<html>v1</html>"
        one == DictSet(EmptyDict, "airbnb", html)
    IN  {[index |-> NoFile, blobs |-> EmptyDict],
         [index |-> JsonFile(DictSet(EmptyDict, "airbnb", Sha256(html))), blobs |-> one],
         [index |-> MalformedFile, blobs |-> one],
         [index |-> NoFile, blobs |-> one]}

\* What _parse_directory_page may find on one page.
DirectoryPageData ==
    LET growth == DirectoryEntry([id_text |-> "218",
                                  stage_raw |-> <<"G", "r", "o", "w", "t", "h", " ">>])
        spac == DirectoryEntry([id_text |-> "", stage_raw |-> <<"S", "P", "A", "C">>])
    IN  {EmptyDict,
         DictSet(EmptyDict, "airbnb", growth),
         DictSet(EmptyDict, "airbnb", spac),
         DictSet(DictSet(EmptyDict, "airbnb", spac), "stripe", growth)}

\* The answers to one directory request: a failure (raise_for_status
\* raises), or a page with its rows and the total its pager configuration
\* declares, NoneInt without one.
DirectoryResponses ==
    {[status |-> "error", rows |-> EmptyDict, total |-> NoneInt]} \cup
    [status : {"ok"}, rows : DirectoryPageData, total : {NoneInt} \cup 0..MaxPages]

\* _extract_total_pages
extract_total_pages(resp) == IF resp.total = NoneInt THEN 1 ELSE resp.total

\* all_data.update(page_data)
DictUpdateKeepsOld(d, e) == d @@ e
DictUpdate(d, e) == e @@ d

\* fetch_directory_data, the two tests that leave the loop
LeavesLoop(page, resp) ==
    resp.rows = EmptyDict \/ page >= extract_total_pages(resp)

\* fetch_pages as main calls it: the for loop from list entry k on, got[k]
\* being what fetch_company_page returns for entry k, then the state
\* [results, hashes, blobs, requested] at the end of the loop.
RECURSIVE FetchPagesLoop(_, _, _, _, _)
FetchPagesLoop(l, on, got, k, st) ==
    IF k > Len(l) THEN st
    ELSE LET s == l[k]
             html == got[k]
         IN  IF IsCacheHit(on, st.hashes, st.blobs, s)
             THEN FetchPagesLoop(l, on, got, k + 1,
                      [st EXCEPT !.results = DictSet(@, s, GetCachedHtml(st.blobs, s))])
             ELSE LET upd == IF on /\ html # None
                             THEN Update(st.hashes, st.blobs, s, html)
                             ELSE [hashes |-> st.hashes, blobs |-> st.blobs]
                  IN  FetchPagesLoop(l, on, got, k + 1,
                          [results |-> IF html # None THEN DictSet(st.results, s, html)
                                       ELSE st.results,
                           hashes |-> upd.hashes,
                           blobs |-> upd.blobs,
                           requested |-> st.requested \cup {s}])

\* what the steps of SpecStartup never touch
exceptStartup == <<pc, runNo, i, attempt, ret, outcome, tampered,
                   pages, companies, errors, tree, tree0, built, callVars, postVars>>

DirectoryIdle == dir_page = 0

\* main, step 1: fetch_company_slugs().  A failed request or an unparsable
\* sitemap raises, and main catches nothing.
DiscoverSlugs ==
    /\ mpc = "start"
    /\ \/ /\ trace' = Append(trace, Event("sitemap", "error"))
          /\ mpc' = "exited"
          /\ exitCode' = 1
          /\ UNCHANGED slugs
       \/ \E l \in InjectiveSeqs(Slugs, MaxSlugs) :
            /\ trace' = Append(trace, Event("sitemap", "ok"))
            /\ slugs' = l
            /\ mpc' = "slugs"
            /\ UNCHANGED exitCode
    /\ UNCHANGED <<directory_data, dir_page, cacheOn, results, hashes, diskIndex,
                   blobs, requested, exceptStartup>>

\* main, step 2: directory_data = {} and, unless --skip-directory, the call
\* of fetch_directory_data up to its loop (all_data = {}, page = 1).
BeginDirectory ==
    /\ mpc = "slugs"
    /\ \E skip_directory \in BOOLEAN :
        IF skip_directory
        THEN /\ mpc' = "directory-done"
             /\ UNCHANGED dir_page
        ELSE /\ mpc' = "directory"
             /\ dir_page' = 1
    /\ directory_data' = EmptyDict
    /\ UNCHANGED <<trace, exitCode, slugs, cacheOn, results, hashes, diskIndex,
                   blobs, requested, exceptStartup>>

\* fetch_directory_data: one pass of the while loop.
DirectoryPage ==
    /\ mpc = "directory"
    /\ \E resp \in DirectoryResponses :
        /\ trace' = Append(trace, Event("directory_page",
                               [page |-> dir_page, resp |-> resp]))
        /\ IF resp.status = "error"
           THEN /\ mpc' = "exited"
                /\ exitCode' = 1
                /\ UNCHANGED <<directory_data, dir_page>>
           ELSE /\ directory_data' = DictUpdate(directory_data, resp.rows)
                /\ IF LeavesLoop(dir_page, resp)
                   THEN /\ mpc' = "directory-done"
                        /\ UNCHANGED dir_page
                   ELSE /\ mpc' = "directory"
                        /\ dir_page' = dir_page + 1
                /\ UNCHANGED exitCode
    /\ UNCHANGED <<slugs, cacheOn, results, hashes, diskIndex, blobs, requested,
                   exceptStartup>>

\* main, step 3, line 69: cache = None if args.no_cache else ContentCache().
\* The request log is dropped here.
OpenCache ==
    /\ mpc = "directory-done"
    /\ \E no_cache \in BOOLEAN :
        /\ cacheOn' = ~no_cache
        /\ IF ~no_cache /\ LoadRaises(diskIndex)
           THEN /\ mpc' = "exited"
                /\ exitCode' = 1
                /\ UNCHANGED hashes
           ELSE /\ mpc' = "cache"
                /\ hashes' = IF no_cache THEN EmptyDict ELSE Load(diskIndex)
                /\ UNCHANGED exitCode
    /\ trace' = <<>>
    /\ UNCHANGED <<directory_data, dir_page, slugs, results, diskIndex, blobs,
                   requested, exceptStartup>>

\* main, step 3, line 74: pages = fetch_pages(slugs, client, cache), the
\* dict kept in results.
FetchPages ==
    /\ mpc = "cache"
    /\ \E got \in [1..Len(slugs) -> Htmls \cup {None}] :
        LET st == FetchPagesLoop(slugs, cacheOn, got, 1,
                      [results |-> EmptyDict, hashes |-> hashes, blobs |-> blobs,
                       requested |-> {}])
        IN  /\ results' = st.results
            /\ hashes' = st.hashes
            /\ blobs' = st.blobs
            /\ requested' = st.requested
            /\ diskIndex' = IF cacheOn THEN Save(st.hashes) ELSE diskIndex
    /\ mpc' = "fetched"
    /\ UNCHANGED <<trace, exitCode, directory_data, dir_page, slugs, cacheOn,
                   exceptStartup>>

----------------------------------------------------------------------------
(* Claims on the start of a run and on the directory listing, checked      *)
(* under SpecStartup and SpecStartupFair                                   *)

SitemapFailed ==
    \E k \in DOMAIN trace : trace[k].ev = "sitemap" /\ trace[k].arg = "error"

\* a failed run: exit code 1, no company page requested, nothing fetched,
\* the cache directory and the output tree as the step found them
StopsClean ==
    mpc' = "exited" =>
        /\ exitCode' = 1
        /\ requested' = {}
        /\ results' = EmptyDict
        /\ UNCHANGED <<diskIndex, blobs, tree>>

\* C17 as stated: a malformed or missing cache index, or an unreachable
\* sitemap, stops the run at once with a non-zero exit, before any page is
\* fetched and with no write to the cache or to the output tree.  So a run
\* gets past the opening of the cache only with a well-formed index file.
C17_BadIndexOrSitemapStops ==
    /\ [](SitemapFailed => mpc = "exited" /\ exitCode = 1)
    /\ [](mpc = "cache" => diskIndex.file = "json")
    /\ [][StopsClean]_vars

\* C17, amended: an unreachable sitemap, or a malformed cache index in a run
\* that uses the cache, stops the run at once with exit code 1, before any
\* company page is fetched and with no write to the cache or to the output
\* tree; a missing index does not stop the run, which starts with an empty
\* cache.
C17_MalformedIndexOrSitemapStops ==
    /\ [](SitemapFailed => mpc = "exited" /\ exitCode = 1)
    /\ [](mpc = "cache" /\ cacheOn => diskIndex.file # "malformed")
    /\ [][StopsClean]_vars
    /\ [][mpc = "directory-done" /\ diskIndex.file = "missing"
            => mpc' = "cache" /\ hashes' = EmptyDict]_vars

\* C17 witness: a run that had fetched the directory listing stopped on a
\* malformed index, with exit code 1 and the cache directory untouched.
C17_Witness ==
    /\ mpc = "exited"
    /\ exitCode = 1
    /\ cacheOn
    /\ diskIndex = MalformedFile
    /\ directory_data # EmptyDict
    /\ requested = {}

\* the directory requests of the run so far, in order
DirectoryLog ==
    LET evs == SelectSeq(trace, LAMBDA e : e.ev = "directory_page")
    IN  [k \in DOMAIN evs |-> evs[k].arg]

\* one entry per slug of the pages of the log, from the last page holding it
LatestEntries(log) ==
    LET holds(s) == {k \in DOMAIN log : s \in DOMAIN log[k].resp.rows}
        last(s) == CHOOSE k \in holds(s) : \A j \in holds(s) : j <= k
    IN  [s \in {t \in DirectorySlugs : holds(t) # {}} |-> log[last(s)].resp.rows[s]]

\* C18: fetch_directory_data requests pages 1, 2, 3, ... in order, goes on
\* to the next page only after a page with rows whose number is below the
\* total it declares (1 without a pager configuration), returns after the
\* first page without rows or whose number has reached the total, and so
\* ends; the result holds one entry per slug seen, the one of the latest
\* page holding the slug.
C18_DirectoryPagination ==
    /\ [](mpc \in {"directory", "directory-done"} /\ dir_page > 0 =>
            LET log == DirectoryLog
                n == Len(log)
                Stops(k) == \/ log[k].resp.rows = EmptyDict
                            \/ log[k].page >= extract_total_pages(log[k].resp)
            IN  /\ \A k \in 1..n : log[k].page = k
                /\ \A k \in 1..(n - 1) : ~Stops(k)
                /\ mpc = "directory" => dir_page = n + 1 /\ (n > 0 => ~Stops(n))
                /\ mpc = "directory-done" =>
                    /\ n > 0
                    /\ Stops(n)
                    /\ directory_data = LatestEntries(log))
    /\ (mpc = "directory") ~> (mpc \in {"directory-done", "exited"})

\* C18 witness: the call returned after three pages, airbnb on two of them
\* with different entries.
C18_Witness ==
    /\ mpc = "directory-done"
    /\ LET log == DirectoryLog
       IN  /\ Len(log) = 3
           /\ "airbnb" \in DOMAIN log[1].resp.rows
           /\ "airbnb" \in DOMAIN log[3].resp.rows
           /\ log[1].resp.rows["airbnb"] # log[3].resp.rows["airbnb"]
           /\ directory_data["airbnb"] = log[3].resp.rows["airbnb"]

----------------------------------------------------------------------------
(* SpecReruns: complete runs of fetch_pages, one after the other, on one    *)
(* cache directory; between two runs a file of the directory may be        *)
(* removed by hand.  Here tampered tells whether that happened since the   *)
(* last run.                                                               *)

\* what the steps of SpecReruns never touch
exceptReruns == <<i, attempt, trace, ret, outcome, pipeVars, callVars, postVars, dir_page>>

\* One complete run: ContentCache() unless no cache is used, then
\* fetch_pages(slugs, client, cache) to its return, cache.save() included.
RunFetchPages ==
    /\ pc \in {"idle", "done"}
    /\ runNo < MaxRuns
    /\ \E on \in BOOLEAN, l \in InjectiveSeqs(Slugs, MaxSlugs) :
        \E got \in [1..Len(l) -> Htmls \cup {None}] :
            LET st == FetchPagesLoop(l, on, got, 1,
                          [results |-> EmptyDict,
                           hashes |-> IF on THEN Load(diskIndex) ELSE EmptyDict,
                           blobs |-> blobs,
                           requested |-> {}])
            IN  /\ cacheOn' = on
                /\ slugs' = l
                /\ results' = st.results
                /\ hashes' = st.hashes
                /\ blobs' = st.blobs
                /\ requested' = st.requested
                /\ diskIndex' = IF on THEN Save(st.hashes) ELSE diskIndex
    /\ runNo' = runNo + 1
    /\ pc' = "done"
    /\ tampered' = FALSE
    /\ UNCHANGED exceptReruns

\* Between two runs somebody removes a blob file or the index file.
RemoveCacheFile ==
    /\ pc = "done"
    /\ runNo < MaxRuns
    /\ ~tampered
    /\ \/ /\ \E s \in DOMAIN blobs :
                blobs' = [t \in DOMAIN blobs \ {s} |-> blobs[t]]
          /\ UNCHANGED diskIndex
       \/ /\ diskIndex.file # "missing"
          /\ diskIndex' = NoFile
          /\ UNCHANGED blobs
    /\ tampered' = TRUE
    /\ UNCHANGED <<pc, runNo, cacheOn, slugs, results, hashes, requested>>
    /\ UNCHANGED exceptReruns

\* C23: of two consecutive complete runs with a cache on a cache directory
\* nobody touched in between, the second requests no slug of the first
\* run's results and returns for it the HTML the first run returned; and a
\* run with a cache requests a slug only if the slug's blob or its digest
\* is missing when the run starts (as after a failed fetch).
C23_Step ==
    (runNo' = runNo + 1 /\ cacheOn') =>
        /\ (runNo >= 1 /\ cacheOn /\ ~tampered) =>
               \A s \in DOMAIN results :
                   /\ s \notin requested'
                   /\ s \in Range(slugs') =>
                          s \in DOMAIN results' /\ results'[s] = results[s]
        /\ \A s \in requested' :
               s \notin DOMAIN blobs \/ s \notin DOMAIN Load(diskIndex)
----------------------------------------------------------------------------
(* SpecRelease: build_all into an empty output root, then validate_build   *)
(* on the tree it wrote.                                                   *)

\* the slug of the k-th record of a long batch
PadSlug(k) == "company-" \o ToString(k)

\* A profile page without stage, category, partner or year, and one with
\* all of them.
BarePage == Page("Bare", <<>>, <<>>, <<>>)
FullPage == Page("Listed", <<LabelFintech>>,
                 <<Item({"partnered"}, 2009), Item({"ipo"}, 2020)>>, <<NameLin>>)

\* The batches: none or MIN_COMPANIES - MaxTail records of one kind under
\* distinct slugs, then up to MaxTail records more.
Batches ==
    {[k \in 1..n |-> parse_company(PadSlug(k), pad)] \o tail :
        n \in {0, MIN_COMPANIES - MaxTail},
        pad \in {BarePage, FullPage},
        tail \in SeqsUpTo({parse_company("airbnb", BarePage),
                           parse_company("airbnb", FullPage),
                           parse_company("stripe", BarePage),
                           parse_company("all", FullPage)}, MaxTail)}

\* what the steps of SpecRelease never touch
exceptRelease == <<fetchVars, callVars, dir_page, mpc, pages, directory_data, errors,
                   exitCode, tree0>>

\* build_all(companies, output_dir) on an empty output root
BuildFresh ==
    /\ ~built
    /\ vpc = "idle"
    /\ \E cs \in Batches :
        /\ companies' = cs
        /\ tree' = build_all(EmptyTree, cs)
    /\ built' = TRUE
    /\ UNCHANGED <<vpc, build_dir, defects, vexit>>
    /\ UNCHANGED exceptRelease

\* postbuild.main on the output root
ValidateFresh ==
    /\ built
    /\ vpc = "idle"
    /\ build_dir' = tree
    /\ defects' = validate_build(tree)
    /\ vexit' = IF defects' # <<>> THEN 1 ELSE 0
    /\ vpc' = "exited"
    /\ UNCHANGED <<companies, tree, built>>
    /\ UNCHANGED exceptRelease

\* C25 as claimed: the tree build_all wrote into an empty root for a batch
\* of at least MIN_COMPANIES records with distinct slugs passes
\* validate_build: no defect, total_companies is the length of all.json,
\* every record has its per-slug file and every required subdirectory
\* holds a JSON file.
C25_FreshBuildPasses ==
    (/\ vpc = "exited"
     /\ Len(companies) >= MIN_COMPANIES
     /\ \A n, k \in DOMAIN companies : companies[n].slug = companies[k].slug => n = k)
    =>  /\ defects = <<>>
        /\ tree.all.json = "list"
        /\ tree.meta.data.total_companies = Len(tree.all.data)
        /\ \A n \in DOMAIN companies : HasSlugFile(tree, companies[n].slug)
        /\ \A k \in DOMAIN REQUIRED_SUBDIRS : HasJsonFile(tree, REQUIRED_SUBDIRS[k])

----------------------------------------------------------------------------
(* SpecPipeline: run_build.main *)

\* main starts on an empty output directory or on an earlier build's
InitPipeline ==
    /\ mpc = "start"
    /\ pages = <<>>
    /\ directory_data = EmptyDict
    /\ companies = <<>>
    /\ errors = <<>>
    /\ exitCode = NoneInt
    /\ tree \in {EmptyTree, OldTree}
    /\ tree0 = tree
    /\ built = FALSE
    /\ FetcherIdle
    /\ CallsIdle
    /\ PostbuildIdle
    /\ DirectoryIdle

\* main, steps 1 to 3: the sitemap slugs (cut to --limit), the directory_data
\* data unless --skip-directory_data, and the pages fetch_pages returned.
Crawl ==
    /\ mpc = "start"
    /\ \E l \in InjectiveSeqs(CompanySlugs, MaxCompanies) :
        \E f \in [DOMAIN l -> PipelinePages] :
            pages' = [n \in DOMAIN l |-> [slug |-> l[n], html |-> f[n]]]
    /\ \E skip_directory \in BOOLEAN, D \in SUBSET DirectorySlugs :
        \E rows \in [D -> DirectoryRows] :
            directory_data' = IF skip_directory THEN EmptyDict
                         ELSE [s \in D |-> DirectoryEntry(rows[s])]
    /\ mpc' = "fetched"
    /\ UNCHANGED <<companies, errors, exitCode, tree, tree0, built>>
    /\ UNCHANGED exceptPipeline

\* main, step 4: one record per page
Parse ==
    /\ mpc = "fetched"
    /\ companies' = [n \in DOMAIN pages |-> parse_company(pages[n].slug, pages[n].html)]
    /\ mpc' = "parsed"
    /\ UNCHANGED <<pages, directory_data, errors, exitCode, tree, tree0, built>>
    /\ UNCHANGED exceptPipeline

\* main, step 5: "if directory_data: companies = merge_directory_data(...)"
MergeDirectory ==
    /\ mpc = "parsed"
    /\ companies' = IF DOMAIN directory_data # {}
                    THEN merge_directory_data(companies, directory_data)
                    ELSE companies
    /\ mpc' = "merged"
    /\ UNCHANGED <<pages, directory_data, errors, exitCode, tree, tree0, built>>
    /\ UNCHANGED exceptPipeline

\* validate_companies: one entry per record the schema rejects, in list
\* order; which records those are is the validator's verdict.
ErrorEntries(cs, bad) ==
    LET RECURSIVE Entries(_)
        Entries(n) ==
            IF n > Len(cs) THEN <<>>
            ELSE (IF n \in bad THEN <<[slug |-> cs[n].slug, errors |-> <<"schema">>]>>
                  ELSE <<>>) \o Entries(n + 1)
    IN  Entries(1)

\* main: "if errors:"
AbortOnSeveralErrors(errs) == Len(errs) > 1
AbortOnErrors(errs) == errs # <<>>

\* main, step 6: validate, and sys.exit(1) on any error entry
Validate ==
    /\ mpc = "merged"
    /\ \E bad \in SUBSET (DOMAIN companies) :
        /\ errors' = ErrorEntries(companies, bad)
        /\ IF AbortOnErrors(errors')
           THEN mpc' = "exited" /\ exitCode' = 1
           ELSE mpc' = "validated" /\ UNCHANGED exitCode
    /\ UNCHANGED <<pages, directory_data, companies, tree, tree0, built>>
    /\ UNCHANGED exceptPipeline

\* main, steps 7 and 8: report_completeness (reads only), build_all, return
Build ==
    /\ mpc = "validated"
    /\ tree' = build_all(tree, companies)
    /\ built' = TRUE
    /\ exitCode' = 0
    /\ mpc' = "exited"
    /\ UNCHANGED <<pages, directory_data, companies, errors, tree0>>
    /\ UNCHANGED exceptPipeline

----------------------------------------------------------------------------
(* Claims on main, the parser and the merge, checked under SpecPipeline *)

\* C1: when validate_companies returned at least one error entry, the
\* process has exited with a non-zero code, build_all was not called and the
\* output directory is as the process found it; build_all is called only
\* after validation returned the empty list.
C1_ValidationGatesBuild ==
    /\ errors # <<>> =>
        /\ mpc = "exited"
        /\ exitCode # NoneInt /\ exitCode # 0
        /\ ~built
        /\ tree = tree0
    /\ built => errors = <<>> /\ mpc = "exited"
    /\ mpc \in {"start", "fetched", "parsed", "merged"} => ~built /\ tree = tree0

\* one record of two was rejected, over an output directory of an earlier build
C1_Witness ==
    /\ mpc = "exited"
    /\ Len(errors) = 1
    /\ Len(companies) = 2
    /\ tree0 = OldTree
    /\ exitCode = 1

\* C8: after the merge, a record whose slug has a directory entry carries
\* the entry's stage whenever that stage is not None, and the entry's
\* sequoia_id whenever that is not None, whatever the parser had inferred.
C8_DirectoryStageWins ==
    mpc \in {"merged", "validated", "exited"} =>
        \A n \in DOMAIN companies :
            LET c == companies[n]
            IN  c.slug \in DOMAIN directory_data =>
                    /\ directory_data[c.slug].stage # None =>
                           c.current_stage = directory_data[c.slug].stage
                    /\ directory_data[c.slug].sequoia_id # None =>
                           c.sequoia_id = directory_data[c.slug].sequoia_id

\* the parser had inferred "acquired", the directory says "growth"
C8_Witness ==
    /\ mpc = "merged"
    /\ \E n \in DOMAIN companies :
        /\ infer_stage(companies[n].milestones) = "acquired"
        /\ companies[n].slug \in DOMAIN directory_data
        /\ directory_data[companies[n].slug].stage = "growth"
        /\ companies[n].current_stage = "growth"
        /\ companies[n].sequoia_id = "218"

\* C9: the merge step keeps the number and order of the records, changes no
\* field but current_stage and sequoia_id, leaves a record without directory
\* entry as it was, and never turns a stage or id that was set into None.
C9_Step ==
    (mpc = "parsed" /\ mpc' = "merged") =>
        /\ Len(companies') = Len(companies)
        /\ \A n \in DOMAIN companies :
            LET old == companies[n]
                new == companies'[n]
            IN  /\ new.slug = old.slug
                /\ [new EXCEPT !.current_stage = old.current_stage,
                               !.sequoia_id = old.sequoia_id] = old
                /\ old.slug \notin DOMAIN directory_data => new = old
                /\ old.current_stage # None => new.current_stage # None
                /\ old.sequoia_id # None => new.sequoia_id # None
C9_MergeFrame == [][C9_Step]_vars

\* a directory entry without stage met a record with an inferred stage,
\* beside a record the directory does not list
C9_Witness ==
    /\ mpc = "merged"
    /\ \E n \in DOMAIN companies :
        /\ companies[n].slug \in DOMAIN directory_data
        /\ directory_data[companies[n].slug].stage = None
        /\ companies[n].current_stage = "ipo"
        /\ companies[n].sequoia_id = "77"
    /\ \E n \in DOMAIN companies : companies[n].slug \notin DOMAIN directory_data

\* C10: in every record, after parsing and after the merge, primary_partner
\* is None exactly when partners is empty and is partners[0] otherwise.
C10_PrimaryPartnerIsFirst ==
    \A n \in DOMAIN companies :
        LET c == companies[n]
        IN  /\ c.primary_partner = NoneText <=> c.partners = <<>>
            /\ c.partners # <<>> => c.primary_partner = c.partners[1]

\* after a merge that changed its stage, a record with several partners
\* whose first differs from its last, beside a record without partners
C10_Witness ==
    /\ mpc = "merged"
    /\ \E n \in DOMAIN companies :
        /\ Len(companies[n].partners) >= 2
        /\ companies[n].partners[1] # companies[n].partners[Len(companies[n].partners)]
        /\ companies[n].primary_partner = companies[n].partners[1]
        /\ companies[n].current_stage # infer_stage(companies[n].milestones)
    /\ \E n \in DOMAIN companies :
        companies[n].partners = <<>> /\ companies[n].primary_partner = NoneText

\* C14 as claimed: in the tree build_all wrote for the batch, every record
\* has its companies/<slug>.json; its summary is in the stages/ file of its
\* current_stage and in no other (in none when the stage is None), in at
\* most one first-partnered/ file, the one of its year, and in a
\* categories/ or partners/ file exactly when the file's id is among the
\* record's categories or partners, and then once.
C14_GroupFiles ==
    built =>
        \A n \in DOMAIN companies :
            LET c == companies[n]
                Times(file) == Cardinality({k \in DOMAIN file.companies :
                                               file.companies[k] = company_summary(c)})
            IN  /\ c.slug \in DOMAIN tree.companies
                /\ \A st \in DOMAIN tree.stages :
                       Times(tree.stages[st]) = IF st = c.current_stage THEN 1 ELSE 0
                /\ c.current_stage \in DOMAIN tree.stages \cup {None}
                /\ \A y \in DOMAIN tree.years :
                       Times(tree.years[y]) = IF y = c.first_partnered_year THEN 1 ELSE 0
                /\ \A id \in DOMAIN tree.categories :
                       Times(tree.categories[id]) = IF id \in Range(c.categories) THEN 1 ELSE 0
                /\ Range(c.categories) \subseteq DOMAIN tree.categories
                /\ \A id \in DOMAIN tree.partners :
                       Times(tree.partners[id]) = IF id \in Range(c.partners) THEN 1 ELSE 0
                /\ Range(c.partners) \subseteq DOMAIN tree.partners

\* C22: after parse_company, after merge_directory_data and in the stage
\* files build_all writes, the current_stage of every record is None or a
\* member of STAGE_ENUM.
C22_StageInEnum ==
    /\ \A n \in DOMAIN companies : companies[n].current_stage \in STAGE_ENUM \cup {None}
    /\ built => \A st \in DOMAIN tree.stages :
                    /\ st \in STAGE_ENUM
                    /\ tree.stages[st].id = st

\* C22 witness: a build wrote stages/unknown.json for a record whose stage
\* came from a directory label the table does not hold.
C22_Witness ==
    /\ built
    /\ "unknown" \in DOMAIN tree.stages
    /\ \E n \in DOMAIN companies :
        /\ companies[n].current_stage = "unknown"
        /\ companies[n].slug \in DOMAIN directory_data
        /\ directory_data[companies[n].slug].stage = "unknown"

\* C24 as claimed: after a build over an output root that may hold an
\* earlier build, companies/ holds one file per slug of all.json and no
\* other, and stages/, categories/, partners/ and first-partnered/ hold
\* the groups of the batch just built and no file of an earlier build.
C24_TreeReflectsLastBatch ==
    built =>
        /\ DOMAIN tree.companies =
               {tree.all.data[n].slug : n \in DOMAIN tree.all.data}
        /\ DOMAIN tree.stages = DOMAIN group_by_stage(companies)
        /\ DOMAIN tree.categories = DOMAIN group_by_category(companies)
        /\ DOMAIN tree.partners = DOMAIN group_by_partner(companies)
        /\ DOMAIN tree.years = DOMAIN group_by_year(companies)

----------------------------------------------------------------------------
(* The specifications *)

\* main before its first step
PipelineIdle ==
    /\ mpc = "start"
    /\ pages = <<>>
    /\ directory_data = EmptyDict
    /\ companies = <<>>
    /\ errors = <<>>
    /\ exitCode = NoneInt
    /\ tree = EmptyTree
    /\ tree0 = EmptyTree
    /\ built = FALSE

NextFetch ==
    \/ StartRun
    \/ CacheHit
    \/ BeginFetch
    \/ Attempt
    \/ Continue
    \/ FinishRun
    \/ Interrupt
    \/ RemoveBlob

\* a cache directory that no run has written yet
InitFetch == FetcherIdle /\ PipelineIdle /\ CallsIdle /\ PostbuildIdle /\ DirectoryIdle

SpecFetch == InitFetch /\ [][NextFetch]_vars

NextPipeline ==
    \/ Crawl
    \/ Parse
    \/ MergeDirectory
    \/ Validate
    \/ Build

SpecPipeline == InitPipeline /\ [][NextPipeline]_vars

NextCalls ==
    \/ CallSlugify
    \/ CallNormalizeStage
    \/ CallParseMilestones
    \/ CallParseLists
    \/ CallExtractSocials

InitCalls == FetcherIdle /\ PipelineIdle /\ CallsIdle /\ PostbuildIdle /\ DirectoryIdle

SpecCalls == InitCalls /\ [][NextCalls]_vars

NextPostbuild ==
    \/ PostbuildStart
    \/ PostbuildMain

InitPostbuild == FetcherIdle /\ PipelineIdle /\ CallsIdle /\ PostbuildIdle /\ DirectoryIdle

SpecPostbuild == InitPostbuild /\ [][NextPostbuild]_vars

InitStartup ==
    /\ \E c \in CacheDirs :
        /\ diskIndex = c.index
        /\ blobs = c.blobs
    /\ pc = "idle"
    /\ runNo = 0
    /\ cacheOn = FALSE
    /\ slugs = <<>>
    /\ i = 0
    /\ results = EmptyDict
    /\ hashes = EmptyDict
    /\ attempt = 0
    /\ trace = <<>>
    /\ ret = None
    /\ requested = {}
    /\ outcome = <<>>
    /\ tampered = FALSE
    /\ PipelineIdle
    /\ CallsIdle
    /\ PostbuildIdle
    /\ DirectoryIdle

NextStartup ==
    \/ DiscoverSlugs
    \/ BeginDirectory
    \/ DirectoryPage
    \/ OpenCache
    \/ FetchPages

SpecStartup == InitStartup /\ [][NextStartup]_vars

NextReruns ==
    \/ RunFetchPages
    \/ RemoveCacheFile

InitReruns == FetcherIdle /\ PipelineIdle /\ CallsIdle /\ PostbuildIdle /\ DirectoryIdle

SpecReruns == InitReruns /\ [][NextReruns]_vars

NextRelease ==
    \/ BuildFresh
    \/ ValidateFresh

InitRelease == FetcherIdle /\ PipelineIdle /\ CallsIdle /\ PostbuildIdle /\ DirectoryIdle

SpecRelease == InitRelease /\ [][NextRelease]_vars

\* main is one thread: a run that can take its next step takes it.
SpecStartupFair == SpecStartup /\ WF_vars(NextStartup)

====
